---- MODULE Spec2Model ----
(***************************************************************************)
(* The card expansion coordinator of the Fynstra one-page site             *)
(* (src/src/App.tsx, component App, lines 594-859; the same coordinator is *)
(* in src/unnamed/part_001, lines 195-320).                                *)
(*                                                                         *)
(* React state is modelled as it is used by the handlers: a handler reads  *)
(* the values of the last render (the unprimed variables), queues its      *)
(* setState calls in a batch in which the last write of a field wins, and  *)
(* the batch is committed before the next event is handled.  setTimeout    *)
(* callbacks all use the same delay ANIM_MS, so they run in the order in   *)
(* which they were scheduled: the pending timers are a FIFO queue, each    *)
(* with the time that is left until it is due.                             *)
(*                                                                         *)
(* Around the coordinator: the `entered` flag of CardGrid.Item and the     *)
(* animation frames (FrameSpec), the Enquire buttons of part_001           *)
(* (EnquireSpec), the About cards (AboutSpec), the mobile menu of the      *)
(* header (MenuSpec) and the revision of the site with the mobile overlay  *)
(* menu, src/src/App.tsx lines 1438-1620 (MobileSpec).                     *)
(***************************************************************************)
EXTENDS Integers, Sequences, FiniteSets, TLC

(* `null` of the `number | null` state fields. *)
null == -1

(* const ANIM_MS = 420 *)
ANIM_MS == 420

(* Bounds of the model. *)
NumServices == 2   \* cards in the services grid (indices 0..NumServices-1)
NumPackages == 2   \* cards in the packages grid
MaxPending == 1    \* clicks are held back while more timers than this are pending
AnimTicks == 2     \* clock resolution: ticks per ANIM_MS window
TrailLen == 2      \* the first clicks after mount that the history keeps
MaxAboutClicks == 4 \* clicks on the About cards that the model follows

(* FynstraSite, handleScroll: `y > 80 ? "0.7" : "1"` *)
HeroFadeY == 80

TickMs == ANIM_MS \div AnimTicks

ServiceIdx == 0..(NumServices - 1)
PackageIdx == 0..(NumPackages - 1)
Phases == {"open", "closing", "idle"}

VARIABLES
    openService,        \* useState<number | null>(null)
    openPackage,
    closingService,
    closingPackage,
    overlayPhase,       \* "open" | "closing" | "idle"
    timers,             \* pending setTimeout callbacks, in scheduling order
    call,               \* history: the last click and what its handler read
    closeWindowService, \* history: ms left of the animation window opened by
    closeWindowPackage, \*   the latest setClosingX(idx) with idx not null
    closeWindowOverlay, \* history: ms left since overlayPhase last became "closing"
    trail,              \* history: the clicks since mount, while at most TrailLen
    mobileOpen,         \* useState(false)
    bodyOverflow,       \* document.body.style.overflow
    scrollRequests,     \* the scroll-into-view requests made by the latest step
    entered,            \* CardGrid.Item: useState(false), one for each card
    frames,             \* cards whose requestAnimationFrame(setEntered) is pending
    contactFrame,       \* handleEnquireClick: its requestAnimationFrame is pending
    open,               \* AboutPrinciples: useState(false)
    aboutClicks,        \* history: the About cards clicked since mount
    scrollY,            \* FynstraSite: window.scrollY
    heroOpacity,        \* FynstraSite: style.opacity of #hero-bg
    hash                \* FynstraSite: location.hash

progVars == <<openService, openPackage, closingService, closingPackage,
              overlayPhase, timers>>
vars == <<openService, openPackage, closingService, closingPackage,
          overlayPhase, timers, call, closeWindowService, closeWindowPackage,
          closeWindowOverlay, trail, mobileOpen, bodyOverflow, scrollRequests,
          entered, frames, contactFrame, open, aboutClicks, scrollY, heroOpacity,
          hash>>

(* State of the components that the coordinator does not touch. *)
aboutVars == <<open, aboutClicks>>
siteVars == <<scrollY, heroOpacity, hash>>

(***************************************************************************)
(* Batches of state updates                                                *)
(***************************************************************************)

(* The state as rendered, the starting point of a handler's batch.         *)
(* closeReq collects the groups for which the batch called setClosingX     *)
(* with a card index, ops the calls of setOpenX and setTimeout in the      *)
(* order in which the handler makes them, scroll the calls of              *)
(* scrollCardIntoView.                                                     *)
Rendered ==
    [openService |-> openService, openPackage |-> openPackage,
     closingService |-> closingService, closingPackage |-> closingPackage,
     overlayPhase |-> overlayPhase, timers |-> timers, closeReq |-> {},
     ops |-> <<>>, scroll |-> <<>>]

(* Mutant: the callback is due at once. *)
SetTimeout_NoDelay(st, kind, idx) ==
    [st EXCEPT !.timers = Append(@, [kind |-> kind, idx |-> idx, left |-> 0]),
               !.ops = Append(@, "setTimeout")]

(* setTimeout(callback, ANIM_MS) *)
SetTimeout(st, kind, idx) ==
    [st EXCEPT !.timers = Append(@, [kind |-> kind, idx |-> idx, left |-> ANIM_MS]),
               !.ops = Append(@, "setTimeout")]

(* Mutant: the write of the open index is lost. *)
SetOpenService_Lost(st, v) == st

SetOpenService(st, v) ==
    [st EXCEPT !.openService = v, !.ops = Append(@, "setOpenService")]

SetOpenPackage(st, v) ==
    [st EXCEPT !.openPackage = v, !.ops = Append(@, "setOpenPackage")]

SetClosingService(st, idx) ==
    [st EXCEPT !.closingService = idx,
               !.closeReq = IF idx # null THEN @ \cup {"services"} ELSE @]

SetClosingPackage(st, idx) ==
    [st EXCEPT !.closingPackage = idx,
               !.closeReq = IF idx # null THEN @ \cup {"packages"} ELSE @]

(* Mutant: the request is made twice. *)
ScrollCardIntoView_Twice(st, group, index) ==
    [st EXCEPT !.scroll = Append(Append(@, <<group, index>>), <<group, index>>)]

(* scrollCardIntoView(group, index): the request to bring the header       *)
(* card-header-<group>-<index> into view; the browser serves it on the     *)
(* next animation frame.                                                   *)
ScrollCardIntoView(st, group, index) ==
    [st EXCEPT !.scroll = Append(@, <<group, index>>)]

(* Mutant: the close is started but no timer is set to clear it. *)
StartCloseService_NoTimer(st, idx) ==
    SetOpenService(SetClosingService(st, idx), null)

StartCloseService(st, idx) ==
    SetTimeout(SetOpenService(SetClosingService(st, idx), null),
               "clearClosingService", null)

(* Mutant: the closing index is set but the open index is left as it was. *)
StartClosePackage_OpenKept(st, idx) ==
    SetTimeout(SetClosingPackage(st, idx), "clearClosingPackage", null)

StartClosePackage(st, idx) ==
    SetTimeout(SetOpenPackage(SetClosingPackage(st, idx), null),
               "clearClosingPackage", null)

(* Mutant: the backdrop is told to fade but no timer unmounts it. *)
CloseAllWithOverlay_NoIdleTimer(st) ==
    LET s1 == [st EXCEPT !.overlayPhase = "closing"]
        s2 == IF openService # null THEN StartCloseService(s1, openService) ELSE s1
    IN  IF openPackage # null THEN StartClosePackage(s2, openPackage) ELSE s2

(* Mutant: the cards are closed but the backdrop is not told to fade. *)
CloseAllWithOverlay_PhaseKept(st) ==
    LET s2 == IF openService # null THEN StartCloseService(st, openService) ELSE st
        s3 == IF openPackage # null THEN StartClosePackage(s2, openPackage) ELSE s2
    IN  SetTimeout(s3, "overlayIdle", null)

(* Mutant: only the services grid is closed. *)
CloseAllWithOverlay_ServicesOnly(st) ==
    LET s1 == [st EXCEPT !.overlayPhase = "closing"]
        s2 == IF openService # null THEN StartCloseService(s1, openService) ELSE s1
    IN  SetTimeout(s2, "overlayIdle", null)

CloseAllWithOverlay(st) ==
    LET s1 == [st EXCEPT !.overlayPhase = "closing"]
        s2 == IF openService # null THEN StartCloseService(s1, openService) ELSE s1
        s3 == IF openPackage # null THEN StartClosePackage(s2, openPackage) ELSE s2
    IN  SetTimeout(s3, "overlayIdle", null)

(* Mutant: a close request closes without looking at openService. *)
ToggleServiceNull_Unguarded(st) == CloseAllWithOverlay(st)

(* toggleService, `if (i === null) { ...; return; }` *)
ToggleServiceNull(st) ==
    IF openService # null THEN CloseAllWithOverlay(st) ELSE st

TogglePackageNull(st) ==
    IF openPackage # null THEN CloseAllWithOverlay(st) ELSE st

(* Mutant: the other grid is told to close whether it has a card open or   *)
(* not.                                                                    *)
CloseOtherPackage_Unguarded(st) ==
    SetOpenPackage(SetTimeout(SetClosingPackage(st, openPackage),
                              "clearClosingPackage", null), null)

(* toggleService, `if (openPackage !== null) { ... }` *)
CloseOtherPackage(st) ==
    IF openPackage # null
    THEN SetOpenPackage(SetTimeout(SetClosingPackage(st, openPackage),
                                   "clearClosingPackage", null), null)
    ELSE st

(* Mutant: the other grid's card is put into closing and no timer is set   *)
(* to clear it.                                                            *)
CloseOtherService_NoTimer(st) ==
    IF openService # null
    THEN SetOpenService(SetClosingService(st, openService), null)
    ELSE st

CloseOtherService(st) ==
    IF openService # null
    THEN SetOpenService(SetTimeout(SetClosingService(st, openService),
                                   "clearClosingService", null), null)
    ELSE st

(* toggleService, `if (openService === null) { ... }`: open card i at once *)
OpenService(st, i) ==
    ScrollCardIntoView(SetOpenService([st EXCEPT !.overlayPhase = "open"], i),
                       "services", i)

OpenPackage(st, i) ==
    ScrollCardIntoView(SetOpenPackage([st EXCEPT !.overlayPhase = "open"], i),
                       "packages", i)

(* toggleService, the final else branch: hand over to card i after ANIM_MS *)
HandoffService(st, i) ==
    LET s1 == SetTimeout(SetOpenService(SetClosingService(st, openService), null),
                         "handoffService", i)
    IN  IF overlayPhase = "idle" THEN [s1 EXCEPT !.overlayPhase = "open"] ELSE s1

HandoffPackage(st, i) ==
    LET s1 == SetTimeout(SetOpenPackage(SetClosingPackage(st, openPackage), null),
                         "handoffPackage", i)
    IN  IF overlayPhase = "idle" THEN [s1 EXCEPT !.overlayPhase = "open"] ELSE s1

(* Mutant: toggling the open card off closes that card only and leaves    *)
(* the backdrop to itself.                                               *)
ToggleServiceBatch_OffClosesCardOnly(i) ==
    IF i = null
    THEN ToggleServiceNull(Rendered)
    ELSE LET s1 == CloseOtherPackage(Rendered)
         IN  IF openService = null
             THEN OpenService(s1, i)
             ELSE IF openService = i
                  THEN StartCloseService(s1, i)
                  ELSE HandoffService(s1, i)

ToggleServiceBatch(i) ==
    IF i = null
    THEN ToggleServiceNull(Rendered)
    ELSE LET s1 == CloseOtherPackage(Rendered)
         IN  IF openService = null
             THEN OpenService(s1, i)
             ELSE IF openService = i
                  THEN CloseAllWithOverlay(s1)
                  ELSE HandoffService(s1, i)

TogglePackageBatch(i) ==
    IF i = null
    THEN TogglePackageNull(Rendered)
    ELSE LET s1 == CloseOtherService(Rendered)
         IN  IF openPackage = null
             THEN OpenPackage(s1, i)
             ELSE IF openPackage = i
                  THEN CloseAllWithOverlay(s1)
                  ELSE HandoffPackage(s1, i)

(* useEffect(..., [overlayPhase, mobileOpen]): the scroll lock of the body, *)
(* set again after a render in which one of the two has changed.           *)
ScrollLock(phase, mobile) ==
    IF phase # "idle" \/ mobile THEN "hidden" ELSE ""

ScrollLockEffect(phase, mobile) ==
    bodyOverflow' = IF <<phase, mobile>> # <<overlayPhase, mobileOpen>>
                    THEN ScrollLock(phase, mobile)
                    ELSE bodyOverflow

(* React commits the batch of a handler before the next event. *)
Commit(st) ==
    /\ openService' = st.openService
    /\ openPackage' = st.openPackage
    /\ closingService' = st.closingService
    /\ closingPackage' = st.closingPackage
    /\ overlayPhase' = st.overlayPhase
    /\ timers' = st.timers
    /\ closeWindowService' =
         IF "services" \in st.closeReq THEN ANIM_MS ELSE closeWindowService
    /\ closeWindowPackage' =
         IF "packages" \in st.closeReq THEN ANIM_MS ELSE closeWindowPackage
    /\ closeWindowOverlay' =
         IF st.overlayPhase = "closing" /\ overlayPhase # "closing"
         THEN ANIM_MS ELSE closeWindowOverlay
    /\ ScrollLockEffect(st.overlayPhase, mobileOpen)
    /\ scrollRequests' = st.scroll
    /\ UNCHANGED mobileOpen

Click(op, arg) ==
    [op |-> op, arg |-> arg, seenService |-> openService, seenPackage |-> openPackage]

(* The clicks since mount; one entry that says so once there are more. *)
Trail(op, arg) ==
    IF Len(trail) < TrailLen /\ (trail = <<>> \/ trail[1].op # "more")
    THEN Append(trail, [op |-> op, arg |-> arg])
    ELSE <<[op |-> "more", arg |-> null]>>

(***************************************************************************)
(* Derived view values                                                     *)
(***************************************************************************)

GroupOpen(g) == IF g = "services" THEN openService ELSE openPackage
GroupClosing(g) == IF g = "services" THEN closingService ELSE closingPackage
GroupIdx(g) == IF g = "services" THEN ServiceIdx ELSE PackageIdx
Groups == {"services", "packages"}
Cards == {c \in Groups \X (ServiceIdx \cup PackageIdx) : c[2] \in GroupIdx(c[1])}

(* Mutant: a card counts as open as soon as its grid has an open index. *)
IsOpen_AnyIndex(g, i) == GroupOpen(g) # null

(* CardGrid.Item: const isOpen = openIndex === i *)
IsOpen(g, i) == GroupOpen(g) = i
IsClosing(g, i) == GroupClosing(g) = i
IsActiveForPanel(g, i) == IsOpen(g, i) \/ IsClosing(g, i)
(* Mutant: every card is dimmed while the backdrop is lit. *)
DimOthers_AllCards(g, i) == overlayPhase = "open"

(* Mutant: the siblings stay dimmed for as long as the backdrop is mounted. *)
DimOthers_WhileMounted(g, i) == overlayPhase # "idle" /\ ~IsActiveForPanel(g, i)

DimOthers(g, i) == overlayPhase = "open" /\ ~IsActiveForPanel(g, i)
OverlayMounted == overlayPhase # "idle"

(* App has rendered again: one of its state fields has a new value. *)
AppRenders ==
    <<openService', openPackage', closingService', closingPackage', overlayPhase',
      mobileOpen'>> #
    <<openService, openPackage, closingService, closingPackage, overlayPhase,
      mobileOpen>>

(* Mutant: the frame callback of a card that is no longer open is not      *)
(* cancelled.                                                              *)
ItemEffects_NoCancel ==
    IF AppRenders
    THEN /\ entered' = [c \in Cards |-> FALSE]
         /\ frames' = frames \cup {c \in Cards : IF c[1] = "services"
                                                THEN openService' = c[2]
                                                ELSE openPackage' = c[2]}
    ELSE UNCHANGED <<entered, frames>>

(* CardGrid.Item, useState(false) and useEffect(..., [isOpen]).  Item is a *)
(* component declared inside CardGrid, so each render of CardGrid mounts   *)
(* the items anew: `entered` starts at false, the cleanup of the old item  *)
(* cancels its frame callback, and the effect of an open card asks for a   *)
(* frame in which to set `entered`.                                        *)
ItemEffects ==
    IF AppRenders
    THEN /\ entered' = [c \in Cards |-> FALSE]
         /\ frames' = {c \in Cards : IF c[1] = "services"
                                     THEN openService' = c[2]
                                     ELSE openPackage' = c[2]}
    ELSE UNCHANGED <<entered, frames>>

(***************************************************************************)
(* Actions                                                                 *)
(***************************************************************************)

Init ==
    /\ openService = null
    /\ openPackage = null
    /\ closingService = null
    /\ closingPackage = null
    /\ overlayPhase = "idle"
    /\ timers = <<>>
    /\ call = [op |-> "none", arg |-> null, seenService |-> null,
               seenPackage |-> null]
    /\ closeWindowService = 0
    /\ closeWindowPackage = 0
    /\ closeWindowOverlay = 0
    /\ trail = <<>>
    /\ mobileOpen = FALSE
    /\ bodyOverflow = ScrollLock("idle", FALSE)
    /\ scrollRequests = <<>>
    /\ entered = [c \in Cards |-> FALSE]
    /\ frames = {}
    /\ contactFrame = FALSE
    /\ open = FALSE
    /\ aboutClicks = <<>>
    /\ scrollY = 0
    /\ heroOpacity = "1"
    /\ hash = ""

(* onToggle={toggleService}: a card header of the services grid, or any    *)
(* other caller of the callback, with a card index or null.                *)
ToggleService(i) ==
    /\ Len(timers) <= MaxPending
    /\ Commit(ToggleServiceBatch(i))
    /\ call' = Click("toggleService", i)
    /\ trail' = Trail("toggleService", i)
    /\ ItemEffects
    /\ UNCHANGED <<contactFrame, aboutVars, siteVars>>

TogglePackage(i) ==
    /\ Len(timers) <= MaxPending
    /\ Commit(TogglePackageBatch(i))
    /\ call' = Click("togglePackage", i)
    /\ trail' = Trail("togglePackage", i)
    /\ ItemEffects
    /\ UNCHANGED <<contactFrame, aboutVars, siteVars>>

(* The backdrop button, rendered while overlayMounted. *)
OverlayClick ==
    /\ OverlayMounted
    /\ Len(timers) <= MaxPending
    /\ Commit(CloseAllWithOverlay(Rendered))
    /\ call' = Click("overlay", null)
    /\ trail' = Trail("overlay", null)
    /\ ItemEffects
    /\ UNCHANGED <<contactFrame, aboutVars, siteVars>>

(* Mutant: the hand-off opens its card only if the group is still waiting  *)
(* for it under a lit backdrop.                                            *)
TimerCallback_GuardedHandoff(t) ==
    CASE t.kind = "clearClosingService" ->
           /\ closingService' = null
           /\ scrollRequests' = <<>>
           /\ UNCHANGED <<openService, openPackage, closingPackage, overlayPhase>>
      [] t.kind = "clearClosingPackage" ->
           /\ closingPackage' = null
           /\ scrollRequests' = <<>>
           /\ UNCHANGED <<openService, openPackage, closingService, overlayPhase>>
      [] t.kind = "overlayIdle" ->
           /\ overlayPhase' = "idle"
           /\ scrollRequests' = <<>>
           /\ UNCHANGED <<openService, openPackage, closingService, closingPackage>>
      [] t.kind = "handoffService" ->
           /\ closingService' = null
           /\ IF openService = null /\ openPackage = null /\ overlayPhase = "open"
              THEN openService' = t.idx /\ scrollRequests' = <<<<"services", t.idx>>>>
              ELSE UNCHANGED openService /\ scrollRequests' = <<>>
           /\ UNCHANGED <<openPackage, closingPackage, overlayPhase>>
      [] t.kind = "handoffPackage" ->
           /\ closingPackage' = null
           /\ IF openPackage = null /\ openService = null /\ overlayPhase = "open"
              THEN openPackage' = t.idx /\ scrollRequests' = <<<<"packages", t.idx>>>>
              ELSE UNCHANGED openPackage /\ scrollRequests' = <<>>
           /\ UNCHANGED <<openService, closingService, overlayPhase>>

(* The callback of the timer that is due first. *)
TimerCallback(t) ==
    CASE t.kind = "clearClosingService" ->
           /\ closingService' = null
           /\ scrollRequests' = <<>>
           /\ UNCHANGED <<openService, openPackage, closingPackage, overlayPhase>>
      [] t.kind = "clearClosingPackage" ->
           /\ closingPackage' = null
           /\ scrollRequests' = <<>>
           /\ UNCHANGED <<openService, openPackage, closingService, overlayPhase>>
      [] t.kind = "overlayIdle" ->
           /\ overlayPhase' = "idle"
           /\ scrollRequests' = <<>>
           /\ UNCHANGED <<openService, openPackage, closingService, closingPackage>>
      [] t.kind = "handoffService" ->
           /\ closingService' = null
           /\ openService' = t.idx
           /\ scrollRequests' = <<<<"services", t.idx>>>>
           /\ UNCHANGED <<openPackage, closingPackage, overlayPhase>>
      [] t.kind = "handoffPackage" ->
           /\ closingPackage' = null
           /\ openPackage' = t.idx
           /\ scrollRequests' = <<<<"packages", t.idx>>>>
           /\ UNCHANGED <<openService, closingService, overlayPhase>>

TimerFires ==
    /\ timers # <<>>
    /\ Head(timers).left = 0
    /\ TimerCallback(Head(timers))
    /\ timers' = Tail(timers)
    /\ ScrollLockEffect(overlayPhase', mobileOpen)
    /\ UNCHANGED <<call, closeWindowService, closeWindowPackage, closeWindowOverlay,
                   trail, mobileOpen>>
    /\ ItemEffects
    /\ UNCHANGED <<contactFrame, aboutVars, siteVars>>

Elapse(ms) == IF ms > TickMs THEN ms - TickMs ELSE 0

(* Time passes; a due timer runs before more time passes. *)
Tick ==
    /\ timers # <<>>
    /\ \A k \in DOMAIN timers : timers[k].left > 0
    /\ timers' = [k \in DOMAIN timers |-> [timers[k] EXCEPT !.left = Elapse(@)]]
    /\ closeWindowService' = Elapse(closeWindowService)
    /\ closeWindowPackage' = Elapse(closeWindowPackage)
    /\ closeWindowOverlay' = Elapse(closeWindowOverlay)
    /\ scrollRequests' = <<>>
    /\ UNCHANGED <<openService, openPackage, closingService, closingPackage,
                   overlayPhase, call, trail, mobileOpen, bodyOverflow>>
    /\ UNCHANGED <<entered, frames, contactFrame, aboutVars, siteVars>>

Next ==
    \/ \E i \in ServiceIdx \cup {null} : ToggleService(i)
    \/ \E i \in PackageIdx \cup {null} : TogglePackage(i)
    \/ OverlayClick
    \/ TimerFires
    \/ Tick

Spec == Init /\ [][Next]_vars

(* The event loop runs due timers and time does not stop. *)
FairSpec == Spec /\ WF_vars(TimerFires) /\ WF_vars(Tick)

(* Header: the "Open menu" button, and the backdrop and links of the       *)
(* mobile sheet.                                                           *)
SetMobileOpen(v) ==
    /\ mobileOpen' = v
    /\ ScrollLockEffect(overlayPhase, v)
    /\ scrollRequests' = <<>>
    /\ UNCHANGED <<openService, openPackage, closingService, closingPackage,
                   overlayPhase, timers, call, closeWindowService,
                   closeWindowPackage, closeWindowOverlay, trail>>
    /\ ItemEffects
    /\ UNCHANGED <<contactFrame, aboutVars, siteVars>>

OpenMenu == SetMobileOpen(TRUE)
CloseMenu == SetMobileOpen(FALSE)

(* The coordinator together with the mobile menu of the header. *)
MenuNext ==
    \/ Next
    \/ OpenMenu
    \/ CloseMenu

MenuSpec == Init /\ [][MenuNext]_vars

(* The browser runs the animation-frame callbacks that are pending:        *)
(* `requestAnimationFrame(() => setEntered(true))` of CardGrid.Item.      *)
Frame ==
    /\ frames # {}
    /\ entered' = [c \in Cards |-> entered[c] \/ c \in frames]
    /\ frames' = {}
    /\ scrollRequests' = <<>>
    /\ UNCHANGED <<openService, openPackage, closingService, closingPackage,
                   overlayPhase, timers, call, closeWindowService,
                   closeWindowPackage, closeWindowOverlay, trail, mobileOpen,
                   bodyOverflow, contactFrame, aboutVars, siteVars>>

(* The coordinator together with the animation frames of the browser. *)
FrameNext ==
    \/ Next
    \/ Frame

FrameSpec == Init /\ [][FrameNext]_vars

(* part_001, handleEnquireClick: the Enquire button in the panel of the    *)
(* open package card.  The cards are told to close and the scroll to       *)
(* #contact is left to the next animation frame.                           *)
EnquireClick ==
    /\ openPackage # null
    /\ Len(timers) <= MaxPending
    /\ Commit(CloseAllWithOverlay(Rendered))
    /\ contactFrame' = TRUE
    /\ call' = Click("enquire", null)
    /\ trail' = Trail("enquire", null)
    /\ ItemEffects
    /\ UNCHANGED <<aboutVars, siteVars>>

(* The frame callback of handleEnquireClick: scrollIntoView of #contact. *)
ContactFrame ==
    /\ contactFrame
    /\ contactFrame' = FALSE
    /\ scrollRequests' = << <<"contact", null>> >>
    /\ UNCHANGED <<openService, openPackage, closingService, closingPackage,
                   overlayPhase, timers, call, closeWindowService,
                   closeWindowPackage, closeWindowOverlay, trail, mobileOpen,
                   bodyOverflow, entered, frames, aboutVars, siteVars>>

(* The coordinator of part_001 with its Enquire buttons. *)
EnquireNext ==
    \/ Next
    \/ EnquireClick
    \/ ContactFrame

EnquireSpec == Init /\ [][EnquireNext]_vars

AboutTitles == {"Clear", "Consistent", "Credible"}

(* Mutant: a click expands and never collapses. *)
ToggleAll_ExpandsOnly(v) == TRUE

(* AboutPrinciples: const toggleAll = () => setOpen((v) => !v) *)
ToggleAll(v) == ~v

(* Card: aria-expanded={open} *)
Expanded(title) == open

(* AboutPrinciples, Card: onClick={toggleAll} *)
AboutClick(title) ==
    /\ Len(aboutClicks) < MaxAboutClicks
    /\ open' = ToggleAll(open)
    /\ aboutClicks' = Append(aboutClicks, title)
    /\ UNCHANGED <<openService, openPackage, closingService, closingPackage,
                   overlayPhase, timers, call, closeWindowService,
                   closeWindowPackage, closeWindowOverlay, trail, mobileOpen,
                   bodyOverflow, scrollRequests, entered, frames, contactFrame,
                   siteVars>>

(* The About section on its own: its state is local to AboutPrinciples. *)
AboutNext == \E title \in AboutTitles : AboutClick(title)

AboutSpec == Init /\ [][AboutNext]_vars

(***************************************************************************)
(* FynstraSite, the revision with the mobile overlay menu                  *)
(* (src/src/App.tsx, lines 1439-1620): mobileOpen is its only React state. *)
(***************************************************************************)

(* useEffect(..., [mobileOpen]): "Lock body scroll when mobile menu is     *)
(* open"; the cleanup and the effect run when mobileOpen has changed.      *)
MobileLock(mobile) == IF mobile THEN "hidden" ELSE ""

SiteSetMobileOpen(v, event) ==
    /\ mobileOpen' = v
    /\ bodyOverflow' = IF v # mobileOpen THEN MobileLock(v) ELSE bodyOverflow
    /\ trail' = Trail(event, null)
    /\ UNCHANGED <<openService, openPackage, closingService, closingPackage,
                   overlayPhase, timers, call, closeWindowService,
                   closeWindowPackage, closeWindowOverlay, scrollRequests,
                   entered, frames, contactFrame, aboutVars, scrollY,
                   heroOpacity>>

(* Mutant: the hamburger opens the menu and never closes it. *)
HamburgerClick_OpensOnly ==
    /\ SiteSetMobileOpen(TRUE, "hamburger")
    /\ UNCHANGED hash

(* The hamburger button: onClick={() => setMobileOpen((v) => !v)} *)
HamburgerClick ==
    /\ SiteSetMobileOpen(~mobileOpen, "hamburger")
    /\ UNCHANGED hash

(* e.key of the keydown events that the model sends. *)
Keys == {"Escape", "Enter"}

(* onKey: if (e.key === "Escape") setMobileOpen(false) *)
KeyDown(key) ==
    /\ SiteSetMobileOpen(IF key = "Escape" THEN FALSE ELSE mobileOpen, key)
    /\ UNCHANGED hash

(* href of the links of the desktop nav and of the overlay *)
LinkHrefs == {"#about", "#services", "#testimonials", "#contact"}

(* The fragment of the address changes (a link of the desktop nav, the    *)
(* back button) and the browser sends hashchange: onHash runs              *)
(* setMobileOpen(false).                                                   *)
HashChange(href) ==
    /\ href # hash
    /\ hash' = href
    /\ SiteSetMobileOpen(FALSE, "hashchange")

(* The backdrop, the "Close menu" button and the links of the overlay,     *)
(* which is rendered while mobileOpen: onClick={() => setMobileOpen(false)} *)
(* and, for a link, the navigation to its href.                            *)
MenuTargets == {"backdrop", "close"} \cup LinkHrefs

MenuOverlayClick(target) ==
    /\ mobileOpen
    /\ SiteSetMobileOpen(FALSE, target)
    /\ hash' = IF target \in LinkHrefs THEN target ELSE hash

(* handleScroll: "Darken hero on scroll" *)
HandleScroll(y) ==
    /\ scrollY' = y
    /\ heroOpacity' = IF y > HeroFadeY THEN "0.7" ELSE "1"
    /\ trail' = Trail("scroll", y)
    /\ UNCHANGED <<openService, openPackage, closingService, closingPackage,
                   overlayPhase, timers, call, closeWindowService,
                   closeWindowPackage, closeWindowOverlay, mobileOpen,
                   bodyOverflow, scrollRequests, entered, frames, contactFrame,
                   aboutVars, hash>>

MobileNext ==
    \/ HamburgerClick
    \/ \E key \in Keys : KeyDown(key)
    \/ \E href \in LinkHrefs \cup {""} : HashChange(href)
    \/ \E target \in MenuTargets : MenuOverlayClick(target)
    \/ \E y \in {0, HeroFadeY, HeroFadeY + 1} : HandleScroll(y)

MobileSpec == Init /\ [][MobileNext]_vars

TypeOK ==
    /\ openService \in ServiceIdx \cup {null}
    /\ openPackage \in PackageIdx \cup {null}
    /\ closingService \in ServiceIdx \cup {null}
    /\ closingPackage \in PackageIdx \cup {null}
    /\ overlayPhase \in Phases
    /\ Len(timers) <= MaxPending + 4

(***************************************************************************)
(* Claims                                                                  *)
(***************************************************************************)

NothingOpen == openService = null /\ openPackage = null
NothingClosing == closingService = null /\ closingPackage = null
HandoffPending ==
    \E k \in DOMAIN timers : timers[k].kind \in {"handoffService", "handoffPackage"}

(* C1: in every reachable state overlayPhase is "idle" if and only if      *)
(* openService, openPackage, closingService and closingPackage are all     *)
(* null.                                                                   *)
C1_OverlayIdleIffAllNone ==
    (overlayPhase = "idle") <=> (NothingOpen /\ NothingClosing)

(* C2: openService and openPackage are never both non-null.                *)
C2_GroupsMutuallyExclusive ==
    ~(openService # null /\ openPackage # null)

(* C3: after toggle(A, i) with a card index i, called while the other      *)
(* group B had a card open, once every pending timer has fired and no      *)
(* further click has occurred, group B's open index is null.               *)
C3_OtherGroupClosedAfterDuration ==
    /\ (call.op = "toggleService" /\ call.arg # null /\ call.seenPackage # null
          /\ timers = <<>>) => openPackage = null
    /\ (call.op = "togglePackage" /\ call.arg # null /\ call.seenService # null
          /\ timers = <<>>) => openService = null

(* C4: whenever no timer is pending, isOpen is true for at most one card   *)
(* of the services grid and at most one card of the packages grid.         *)
C4_AtMostOneOpenWhenSettled ==
    timers = <<>> =>
        \A g \in Groups : Cardinality({i \in GroupIdx(g) : IsOpen(g, i)}) <= 1

(* A settled state reached through a same-group hand-off: the card asked   *)
(* for is open.                                                            *)
C4_Witness ==
    /\ timers = <<>>
    /\ call.op = "togglePackage"
    /\ call.seenPackage # null /\ call.arg # null /\ call.arg # call.seenPackage
    /\ IsOpen("packages", call.arg)

(* C5: toggle(group, null) called while that group's open index is null    *)
(* changes no open or closing index, not overlayPhase and not the pending  *)
(* timers.                                                                 *)
C5_ToggleNoneWhenClosedIsNoOp ==
    [][ ( \/ (openService = null /\ ToggleService(null))
          \/ (openPackage = null /\ TogglePackage(null)) )
        => UNCHANGED progVars ]_vars

(* toggle(packages, null) was called with no package open while a service  *)
(* card was open and a timer was pending; all of it is still there.        *)
C5_Witness ==
    /\ call.op = "togglePackage" /\ call.arg = null /\ call.seenPackage = null
    /\ call.seenService # null /\ openService = call.seenService
    /\ overlayPhase = "open"
    /\ timers # <<>>

(* C6: a closing index does not return to null before ANIM_MS has elapsed  *)
(* since the latest request that put a card of the group into closing.     *)
C6_ClosingNotClearedEarly ==
    [][ /\ (closingService # null /\ closingService' = null) => closeWindowService = 0
        /\ (closingPackage # null /\ closingPackage' = null) => closeWindowPackage = 0
      ]_vars

(* C7: a closing index that is set is eventually null again, and when no   *)
(* timer is pending both closing indices are null.                         *)
C7_ClosingEventuallyCleared ==
    /\ (closingService # null) ~> (closingService = null)
    /\ (closingPackage # null) ~> (closingPackage = null)
    /\ [](timers = <<>> => NothingClosing)

(* A close request put a service card into closing, and it has been        *)
(* cleared since.                                                          *)
C7_Witness ==
    /\ call.op = "toggleService" /\ call.arg = null /\ call.seenService # null
    /\ closingService = null
    /\ timers = <<>>

(* C8: overlayPhase changes only idle -> open, open -> closing and         *)
(* closing -> idle.                                                        *)
C8_OverlayPhaseOrder ==
    [][ overlayPhase' # overlayPhase =>
          <<overlayPhase, overlayPhase'>> \in
             {<<"idle", "open">>, <<"open", "closing">>, <<"closing", "idle">>} ]_vars

(* C9: a card that stops being the open index of its group becomes the     *)
(* closing index of that group in the same step.                           *)
C9_ClosingNeverSkipped ==
    [][ /\ (openService # null /\ openService' # openService)
            => closingService' = openService
        /\ (openPackage # null /\ openPackage' # openPackage)
            => closingPackage' = openPackage ]_vars

(* C10 as claimed: overlayPhase = "open" implies that a card is open.      *)
C10_OverlayOpenImpliesCardOpen ==
    overlayPhase = "open" => ~NothingOpen

(* C10 as amended: overlayPhase = "open" implies that a card is open or    *)
(* that the hand-off timer of a same-group switch is pending.              *)
C10_OverlayOpenImpliesOpenOrHandoff ==
    overlayPhase = "open" => (~NothingOpen \/ HandoffPending)

(* The hand-off window: the backdrop is lit and no card is open.           *)
C10_Witness ==
    overlayPhase = "open" /\ NothingOpen /\ HandoffPending

(* A request to close the open card of its group: toggleX(null) or         *)
(* toggleX(i) on the open card i, or a click on the backdrop.              *)
CloseRequest ==
    \/ \E i \in {null, openService} : openService # null /\ ToggleService(i)
    \/ \E i \in {null, openPackage} : openPackage # null /\ TogglePackage(i)
    \/ (~NothingOpen /\ OverlayClick)

(* C11: overlayPhase becomes "closing" in the step in which the last open  *)
(* card is told to close, and it becomes "idle" only when ANIM_MS has      *)
(* elapsed since it last became "closing".                                 *)
C11_OverlayClosingThenIdleAfterDuration ==
    [][ /\ CloseRequest => (NothingOpen' /\ overlayPhase' = "closing")
        /\ (overlayPhase # "idle" /\ overlayPhase' = "idle") => closeWindowOverlay = 0
      ]_vars

(* C12: whenever overlayPhase is "closing" it eventually becomes "idle".   *)
C12_OverlayClosingEventuallyIdle ==
    (overlayPhase = "closing") ~> (overlayPhase = "idle")

(* A click on the backdrop started the fade, and the backdrop is idle.     *)
C12_Witness ==
    call.op = "overlay" /\ overlayPhase = "idle" /\ timers = <<>>

(* C13: toggle(g, j) called while another card i of g is open sets         *)
(* open[g] = null and closing[g] = i at once, and open[g] does not become  *)
(* j before ANIM_MS has elapsed since that call (no further click made).   *)
C13_HandoffDeferred ==
    /\ [][ /\ \A j \in ServiceIdx :
                (openService \notin {null, j} /\ ToggleService(j))
                   => (openService' = null /\ closingService' = openService)
           /\ \A j \in PackageIdx :
                (openPackage \notin {null, j} /\ TogglePackage(j))
                   => (openPackage' = null /\ closingPackage' = openPackage)
         ]_vars
    /\ []( /\ (call.op = "toggleService" /\ call.arg # null
                 /\ call.seenService \notin {null, call.arg}
                 /\ closeWindowService > 0) => openService # call.arg
           /\ (call.op = "togglePackage" /\ call.arg # null
                 /\ call.seenPackage \notin {null, call.arg}
                 /\ closeWindowPackage > 0) => openPackage # call.arg )

(* C14: toggle(A, i) called while A has nothing open and the other group   *)
(* B has card k open gives open[A] = i, open[B] = null, closing[B] = k and *)
(* overlayPhase "open", and closing[B] stays k for the ANIM_MS until the   *)
(* clear-timer of that call fires (no further click made).                 *)
C14_CrossGroupOpen ==
    /\ [][ /\ \A i \in ServiceIdx :
                (openService = null /\ openPackage # null /\ ToggleService(i))
                   => /\ openService' = i /\ openPackage' = null
                      /\ closingPackage' = openPackage /\ overlayPhase' = "open"
           /\ \A i \in PackageIdx :
                (openPackage = null /\ openService # null /\ TogglePackage(i))
                   => /\ openPackage' = i /\ openService' = null
                      /\ closingService' = openService /\ overlayPhase' = "open"
         ]_vars
    /\ []( /\ (call.op = "toggleService" /\ call.arg # null
                 /\ call.seenService = null /\ call.seenPackage # null
                 /\ closeWindowPackage > 0) => closingPackage = call.seenPackage
           /\ (call.op = "togglePackage" /\ call.arg # null
                 /\ call.seenPackage = null /\ call.seenService # null
                 /\ closeWindowService > 0) => closingService = call.seenService )

ToggleOp(g) == IF g = "services" THEN "toggleService" ELSE "togglePackage"
ClearKind(g) == IF g = "services" THEN "clearClosingService" ELSE "clearClosingPackage"
Pending(kind) == \E k \in DOMAIN timers : timers[k].kind = kind
Toggled(g, i) == [op |-> ToggleOp(g), arg |-> i]

(* C15: on a fresh page toggle(g, i) followed by toggle(g, i) sets         *)
(* open[g] = null, closing[g] = i and overlayPhase "closing" at once;      *)
(* closing[g] stays i until the clear-timer fires, and overlayPhase goes   *)
(* to "idle" when the idle timer fires: open, closing, idle in that order. *)
C15_ToggleOffScenario ==
    \A c \in Cards :
        LET g == c[1]
            i == c[2]
        IN  /\ trail = <<Toggled(g, i)>> =>
                 /\ GroupOpen(g) = i /\ overlayPhase = "open" /\ timers = <<>>
            /\ trail = <<Toggled(g, i), Toggled(g, i)>> =>
                 /\ GroupOpen(g) = null
                 /\ GroupClosing(g) = IF Pending(ClearKind(g)) THEN i ELSE null
                 /\ overlayPhase = IF Pending("overlayIdle") THEN "closing" ELSE "idle"
                 /\ Pending(ClearKind(g)) => Pending("overlayIdle")
                 /\ \A k \in DOMAIN timers :
                        timers[k].left = IF g = "services" THEN closeWindowService
                                         ELSE closeWindowPackage

(* The end of the scenario: the card was toggled off and both timers have  *)
(* fired.                                                                  *)
C15_Witness ==
    /\ trail = <<Toggled("packages", 1), Toggled("packages", 1)>>
    /\ timers = <<>>
    /\ overlayPhase = "idle" /\ closingPackage = null /\ openPackage = null

(* C16: from the initial state toggle(g, i) gives open[g] = i and          *)
(* overlayPhase "open", with every card but (g, i) dimmed.                 *)
C16_FirstOpenDimsOthers ==
    \A c \in Cards :
        trail = <<Toggled(c[1], c[2])>> =>
            /\ GroupOpen(c[1]) = c[2]
            /\ overlayPhase = "open"
            /\ \A d \in Cards : DimOthers(d[1], d[2]) <=> d # c

C16_Witness ==
    /\ trail = <<Toggled("packages", 1)>>
    /\ openPackage = 1
    /\ DimOthers("services", 0) /\ DimOthers("packages", 0)
    /\ ~DimOthers("packages", 1)

Outcome(st) ==
    <<st.openService, st.openPackage, st.closingService, st.closingPackage,
      st.overlayPhase>>

(* C17: toggle(g, i) called while open[g] = i gives the same open indices, *)
(* closing indices and overlayPhase as toggle(g, null) in the same state.  *)
C17_ToggleOffEqualsCloseRequest ==
    /\ openService # null =>
         Outcome(ToggleServiceBatch(openService)) = Outcome(ToggleServiceBatch(null))
    /\ openPackage # null =>
         Outcome(TogglePackageBatch(openPackage)) = Outcome(TogglePackageBatch(null))

(* The open service card was toggled off while a package was open too.     *)
C17_Witness ==
    /\ call.op = "toggleService" /\ call.arg # null /\ call.arg = call.seenService
    /\ call.seenPackage # null
    /\ NothingOpen /\ overlayPhase = "closing"
    /\ closingService = call.seenService /\ closingPackage = call.seenPackage

(* C18: no card is the open index and the closing index of its group at    *)
(* the same time.                                                          *)
C18_NeverOpenAndClosing ==
    /\ openService = closingService => openService = null
    /\ openPackage = closingPackage => openPackage = null

(* C19: the body's scroll lock is set if and only if overlayPhase is not   *)
(* "idle" or mobileOpen is true; in particular it is never released while  *)
(* a card is open.                                                         *)
C19_ScrollLock ==
    /\ bodyOverflow = "hidden" <=> (overlayPhase # "idle" \/ mobileOpen)
    /\ bodyOverflow \in {"hidden", ""}
    /\ ~NothingOpen => bodyOverflow = "hidden"

(* C20: a card (g, i) is dimmed if and only if overlayPhase = "open" and i *)
(* is neither open[g] nor closing[g]; while overlayPhase is "closing" the  *)
(* backdrop is mounted and no card is dimmed.                              *)
C20_DimmedIff ==
    /\ \A i \in ServiceIdx :
         DimOthers("services", i) <=>
            (overlayPhase = "open" /\ i # openService /\ i # closingService)
    /\ \A i \in PackageIdx :
         DimOthers("packages", i) <=>
            (overlayPhase = "open" /\ i # openPackage /\ i # closingPackage)
    /\ overlayPhase = "closing" =>
         (OverlayMounted /\ \A c \in Cards : ~DimOthers(c[1], c[2]))

(* The fade has begun: the closing card is still mounted, its siblings are *)
(* no longer dimmed.                                                       *)
C20_Witness ==
    /\ overlayPhase = "closing" /\ OverlayMounted
    /\ closingPackage # null /\ closeWindowOverlay = ANIM_MS
    /\ \A c \in Cards : ~DimOthers(c[1], c[2])

(* The batches of the toggle calls that can be made in this state. *)
ToggleBatches ==
    {ToggleServiceBatch(i) : i \in ServiceIdx \cup {null}}
        \cup {TogglePackageBatch(i) : i \in PackageIdx \cup {null}}

WritesBeforeTimers(ops) ==
    \A m, n \in DOMAIN ops :
        (ops[m] = "setTimeout" /\ ops[n] \in {"setOpenService", "setOpenPackage"})
            => n < m

(* The second click after mount, made with no timer fired since the first, *)
(* read the open indices that the first click wrote.                       *)
SecondClickReadsFirst ==
    \A c \in Cards :
        (Len(trail) = 2 /\ trail[1] = Toggled(c[1], c[2])) =>
            /\ call.seenService = IF c[1] = "services" THEN c[2] ELSE null
            /\ call.seenPackage = IF c[1] = "packages" THEN c[2] ELSE null

(* C21 as claimed: within one toggle call every write of an open index is  *)
(* made before any timer is scheduled by that call, and a second toggle    *)
(* call made before any timer fires reads the open indices written by the  *)
(* first.                                                                  *)
C21_OpenWrittenBeforeTimerScheduled ==
    /\ \A b \in ToggleBatches : WritesBeforeTimers(b.ops)
    /\ SecondClickReadsFirst

(* C21 as amended: the writes of a toggle call are committed before any    *)
(* timer scheduled by that call can fire (the call leaves the earlier      *)
(* timers as they are and each of its own is due ANIM_MS later), whatever  *)
(* the order of the setOpenX and setTimeout calls in the handler, and a    *)
(* second toggle call made before any timer fires reads the open indices   *)
(* written by the first.                                                   *)
C21_OpenCommittedBeforeTimerFires ==
    /\ \A b \in ToggleBatches :
         /\ Len(b.timers) >= Len(timers)
         /\ SubSeq(b.timers, 1, Len(timers)) = timers
         /\ \A k \in (Len(timers) + 1)..Len(b.timers) :
                b.timers[k].left = ANIM_MS /\ b.timers[k].left > 0
    /\ SecondClickReadsFirst

(* A package was opened and then a service: the second handler saw the     *)
(* package open, called setTimeout before setOpenPackage(null), and both   *)
(* writes are committed with the timer still ANIM_MS away.                 *)
C21_Witness ==
    /\ trail = <<Toggled("packages", 0), Toggled("services", 0)>>
    /\ call.seenPackage = 0
    /\ openService = 0 /\ openPackage = null
    /\ Len(timers) = 1 /\ timers[1].left = ANIM_MS

(* C22: a card that becomes open has `entered` false in that step;        *)
(* `entered` becomes true only in an animation frame that was asked for    *)
(* the card; the frame callback of a card that is no longer open is        *)
(* cancelled, and `entered` is never true of a card that is not open.      *)
C22_EnteredOnlyWhileOpen ==
    /\ [][ \A c \in Cards :
             /\ (~IsOpen(c[1], c[2]) /\ (GroupOpen(c[1]))' = c[2]) => ~entered'[c]
             /\ (~entered[c] /\ entered'[c]) =>
                    (c \in frames /\ frames' = {} /\ UNCHANGED progVars)
         ]_vars
    /\ [](\A c \in Cards : (entered[c] \/ c \in frames) => IsOpen(c[1], c[2]))

(* A package card was opened and its frame has come. *)
C22_Witness ==
    /\ openPackage = 1 /\ entered[<<"packages", 1>>]
    /\ frames = {}
    /\ \A c \in Cards \ {<<"packages", 1>>} : ~entered[c]

HandoffKind(g) == IF g = "services" THEN "handoffService" ELSE "handoffPackage"

(* The step writes card i into the open index of group g: the open branch  *)
(* of a toggle call, or the hand-off timer.                                *)
OpensCard(g, i) ==
    \/ GroupOpen(g) = null /\ g = "services" /\ ToggleService(i)
    \/ GroupOpen(g) = null /\ g = "packages" /\ TogglePackage(i)
    \/ /\ TimerFires
       /\ Head(timers).kind = HandoffKind(g)
       /\ Head(timers).idx = i

(* C23: a step that sets the open index of a group to a card (g, i), in a  *)
(* toggle call or by the hand-off timer, makes exactly one scroll request, *)
(* for the header of (g, i); a step that opens no card makes none.         *)
C23_ScrollRequestIffOpened ==
    [][ /\ \A c \in Cards :
              /\ OpensCard(c[1], c[2]) =>
                    (scrollRequests' = <<c>> /\ (GroupOpen(c[1]))' = c[2])
              /\ ((GroupOpen(c[1]))' = c[2] /\ GroupOpen(c[1]) # c[2]) =>
                    OpensCard(c[1], c[2])
        /\ (~ \E c \in Cards : OpensCard(c[1], c[2])) => scrollRequests' = <<>>
      ]_vars

(* The hand-off timer has opened package 1 and asked for its header. *)
C23_Witness ==
    /\ call.op = "togglePackage" /\ call.arg = 1 /\ call.seenPackage = 0
    /\ openPackage = 1 /\ closingPackage = null
    /\ scrollRequests = << <<"packages", 1>> >>
    /\ ~Pending("handoffPackage")

(* C24: a click on an Enquire button sets both open indices to null and    *)
(* overlayPhase to "closing" and makes no scroll request in that step (the *)
(* scroll to #contact waits for the next frame); once the timers have      *)
(* fired with no further click, overlayPhase is "idle" and no card is open *)
(* or closing.                                                             *)
C24_EnquireClosesThenScrolls ==
    /\ [][ /\ EnquireClick =>
                /\ NothingOpen' /\ overlayPhase' = "closing"
                /\ scrollRequests' = <<>> /\ contactFrame'
           /\ scrollRequests' = << <<"contact", null>> >> => contactFrame
         ]_vars
    /\ []((call.op = "enquire" /\ timers = <<>>) =>
             (overlayPhase = "idle" /\ NothingOpen /\ NothingClosing))

(* C25: the three About cards always have the same expanded value, a      *)
(* click on any of them flips it, and after n clicks on any mix of the     *)
(* three all are expanded if and only if n is odd.                         *)
C25_AboutCardsExpandTogether ==
    /\ \A t, u \in AboutTitles : Expanded(t) = Expanded(u)
    /\ \A t \in AboutTitles : Expanded(t) <=> (Len(aboutClicks) % 2 = 1)

(* Three clicks, one on each card: all are expanded. *)
C25_Witness ==
    /\ aboutClicks = <<"Clear", "Credible", "Consistent">>
    /\ \A t \in AboutTitles : Expanded(t)

(* C26: in the revision with the mobile overlay, Escape and hashchange     *)
(* leave mobileOpen false whatever it was, the hamburger button flips      *)
(* mobileOpen, and the body's scroll lock is set exactly when mobileOpen   *)
(* is true.                                                                *)
C26_MobileMenu ==
    /\ [][ /\ (KeyDown("Escape") \/ \E href \in LinkHrefs \cup {""} : HashChange(href))
                => ~mobileOpen'
           /\ HamburgerClick => (mobileOpen' = ~mobileOpen)
         ]_vars
    /\ [](bodyOverflow = IF mobileOpen THEN "hidden" ELSE "")

(* The menu was opened with the hamburger and closed with Escape: the lock *)
(* is released.                                                            *)
C26_Witness ==
    /\ Len(trail) = 2
    /\ trail[1].op = "hamburger" /\ trail[2].op = "Escape"
    /\ ~mobileOpen /\ bodyOverflow = ""

(* A step that runs closeAllWithOverlay: a click on the backdrop, a toggle *)
(* of the open card, or toggleX(null) while the group has a card open.     *)
CloseAllStep ==
    \/ OverlayClick
    \/ openService # null /\ \E i \in {null, openService} : ToggleService(i)
    \/ openPackage # null /\ \E i \in {null, openPackage} : TogglePackage(i)

(* C27: closeAllWithOverlay closes every group, whichever group the        *)
(* request named: afterwards openService and openPackage are null, each    *)
(* card that was open is the closing index of its group, and overlayPhase  *)
(* is "closing".                                                           *)
C27_CloseAllClosesEveryGroup ==
    [][ CloseAllStep =>
          /\ openService' = null /\ openPackage' = null
          /\ openService # null => closingService' = openService
          /\ openPackage # null => closingPackage' = openPackage
          /\ overlayPhase' = "closing"
      ]_vars

(* toggleService(null) was called while a service and a package were open: *)
(* both are closing.                                                       *)
C27_Witness ==
    /\ call.op = "toggleService" /\ call.arg = null
    /\ call.seenService # null /\ call.seenPackage # null
    /\ NothingOpen /\ overlayPhase = "closing"
    /\ closingService = call.seenService /\ closingPackage = call.seenPackage

(* C28: the hand-off timer of toggle(g, j) sets closing[g] to null and    *)
(* open[g] to j whenever it fires, whatever has happened since it was set, *)
(* and changes neither overlayPhase nor the state of the other group.      *)
C28_HandoffTimerUnconditional ==
    [][ /\ (TimerFires /\ Head(timers).kind = "handoffService") =>
              /\ closingService' = null /\ openService' = Head(timers).idx
              /\ UNCHANGED <<openPackage, closingPackage, overlayPhase>>
        /\ (TimerFires /\ Head(timers).kind = "handoffPackage") =>
              /\ closingPackage' = null /\ openPackage' = Head(timers).idx
              /\ UNCHANGED <<openService, closingService, overlayPhase>>
      ]_vars

(* The backdrop was clicked during a hand-off to package 1, and the timer  *)
(* has opened the card all the same, under the fading backdrop.            *)
C28_Witness ==
    /\ call.op = "overlay" /\ call.seenPackage = null
    /\ openPackage = 1
    /\ scrollRequests = << <<"packages", 1>> >>
    /\ overlayPhase = "closing"

(* The timers that the step has added to the queue. *)
Scheduled == {timers'[k].kind : k \in (Len(timers) + 1)..Len(timers')}

(* C29: a toggle on group A, with any argument, made while the other group *)
(* B has no card open leaves open[B] and closing[B] as they are and        *)
(* schedules no timer that writes the state of B.                          *)
C29_OtherGroupUntouched ==
    [][ /\ (openPackage = null /\ \E i \in ServiceIdx \cup {null} : ToggleService(i))
              => /\ UNCHANGED <<openPackage, closingPackage>>
                 /\ Scheduled \cap {"clearClosingPackage", "handoffPackage"} = {}
        /\ (openService = null /\ \E i \in PackageIdx \cup {null} : TogglePackage(i))
              => /\ UNCHANGED <<openService, closingService>>
                 /\ Scheduled \cap {"clearClosingService", "handoffService"} = {}
      ]_vars

(* A service card was opened during a hand-off between packages: package 0 *)
(* is still closing and the hand-off timer is the only one pending.        *)
C29_Witness ==
    /\ call.op = "toggleService" /\ call.arg = 0 /\ call.seenPackage = null
    /\ openService = 0 /\ openPackage = null /\ closingPackage = 0
    /\ Len(timers) = 1 /\ timers[1].kind = "handoffPackage"
    /\ timers[1].left = ANIM_MS

(* C30: whenever the closing index of a group is not null, a timer is      *)
(* pending whose callback sets that closing index to null.                 *)
C30_ClosingHasClearTimer ==
    \A g \in Groups :
        GroupClosing(g) # null => (Pending(ClearKind(g)) \/ Pending(HandoffKind(g)))

(* Package 0 is closing in a hand-off: the hand-off timer is the one that  *)
(* will clear it.                                                          *)
C30_Witness ==
    /\ closingPackage = 0 /\ openPackage = null
    /\ Pending("handoffPackage") /\ ~Pending("clearClosingPackage")
    /\ closeWindowPackage < ANIM_MS

====
